---- MODULE Spec2Model ----
(***************************************************************************)
(* A model of the storefront (src/src/js/shop.js) and of its admin page    *)
(* (src/unnamed/part_000).  Strings are sequences of one-character         *)
(* strings, product objects live in a heap indexed by object identity,     *)
(* and state.products is a sequence of object identities.                  *)
(***************************************************************************)
EXTENDS Integers, Sequences, FiniteSets, TLC

VARIABLES
  heap,            \* object identity -> product record (every product object ever created)
  products,        \* state.products: sequence of object identities
  cart,            \* state.cart: sequence of product snapshots (records)
  currentPage,     \* state.currentPage
  soldoutCount,    \* state.soldoutCount
  isLoading,       \* state.isLoading
  fetchState,      \* the catalog fetch: "pending", "ok" or "failed"
  searchInput,     \* elements.searchInput.value
  showSoldOut,     \* elements.showSoldOutCheckbox.checked
  timer,           \* the debounce timer of the search input is armed
  view,            \* what the last render left in the DOM
  cartView,        \* cart count, total and order button as displayed
  editedProducts,  \* state.editedProducts (admin)
  convertedImages, \* state.convertedImages: set of [name, blob] pairs, one per key (admin)
  editingProduct,  \* state.editingProduct: object identity, 0 for null (admin)
  deleteTarget,    \* state.deleteTarget: object identity, 0 for null (admin)
  modal,           \* elements.modal is displayed (admin)
  deleteModal,     \* elements.deleteModal is displayed (admin)
  form,            \* the fields of elements.productForm (admin)
  pending,         \* form submissions suspended at await convertImageToWebP (admin)
  opens,           \* how many times a modal was opened (the model stops at MaxOpens)
  archive,         \* the archive the last click on the download button produced
  clock,           \* the wall clock read by new Date() (admin)
  call,            \* the last direct call of a function: [fn, args, ret]
  lastToggle       \* per identifier, the most recent toggleCartItem call: "none", "on", "off"

stateVars == <<heap, products, cart, currentPage, soldoutCount, isLoading, fetchState>>
domVars == <<searchInput, showSoldOut, timer, view, cartView>>
adminVars == <<editedProducts, convertedImages, editingProduct, deleteTarget, modal,
               deleteModal, form, pending, clock, opens, archive>>
harnessVars == <<call, lastToggle>>
vars == <<stateVars, domVars, adminVars, harnessVars>>

----------------------------------------------------------------------------
(* Program constants *)

ITEMS_PER_PAGE == 4
MAX_VISIBLE_PAGES == 5
ID_PAD_WIDTH == 5
ID_PREFIX_LEN == 2

(* Bounds of the model *)

MaxTotalPages == 9
MaxItems == 13
MaxOps == 2
MaxOpens == 2
MaxCardClick == 1
MaxPage == 3
MaxPending == 1

----------------------------------------------------------------------------
(* Strings *)

UpperChars == <<"A","B","C","D","E","F","G","H","I","J","K","L","M",
                "N","O","P","Q","R","S","T","U","V","W","X","Y","Z">>
LowerChars == <<"a","b","c","d","e","f","g","h","i","j","k","l","m",
                "n","o","p","q","r","s","t","u","v","w","x","y","z">>
DigitChars == <<"0","1","2","3","4","5","6","7","8","9">>

Min(a, b) == IF a < b THEN a ELSE b
Max(a, b) == IF a > b THEN a ELSE b

IndexOf(seq, c) == CHOOSE i \in 1..Len(seq) : seq[i] = c
Occurs(seq, c) == \E i \in 1..Len(seq) : seq[i] = c

\* upper-case letter -> its lower-case letter
LowerOf == [c \in {UpperChars[i] : i \in 1..Len(UpperChars)} |-> LowerChars[IndexOf(UpperChars, c)]]

ToLowerChar(c) == IF c \in DOMAIN LowerOf THEN LowerOf[c] ELSE c

\* String.prototype.toLowerCase
ToLowerCase(s) == [i \in 1..Len(s) |-> ToLowerChar(s[i])]

\* Array.prototype.slice / String.prototype.slice(a, b) for a, b >= 0 (0-based, b exclusive)
Slice(s, a, b) == SubSeq(s, Min(a, Len(s)) + 1, Min(b, Len(s)))

RECURSIVE IncludesFrom(_, _, _)
IncludesFrom(s, t, i) ==
  IF i + Len(t) > Len(s) THEN FALSE
  ELSE IF SubSeq(s, i + 1, i + Len(t)) = t THEN TRUE
  ELSE IncludesFrom(s, t, i + 1)

\* String.prototype.includes
Includes(s, t) == IncludesFrom(s, t, 0)

IsSpace(c) == c = " "

RECURSIVE TrimStart(_)
TrimStart(s) == IF s # <<>> /\ IsSpace(Head(s)) THEN TrimStart(Tail(s)) ELSE s

RECURSIVE TrimEnd(_)
TrimEnd(s) ==
  IF s # <<>> /\ IsSpace(s[Len(s)]) THEN TrimEnd(SubSeq(s, 1, Len(s) - 1)) ELSE s

\* String.prototype.trim
Trim(s) == TrimEnd(TrimStart(s))

RECURSIVE NumToString(_)
\* String(n) for an integer n >= 0
NumToString(n) ==
  IF n < 10 THEN <<DigitChars[n + 1]>>
  ELSE NumToString(n \div 10) \o <<DigitChars[(n % 10) + 1]>>

RECURSIVE PadStart(_, _, _)
\* String.prototype.padStart(width, c)
PadStart(s, width, c) == IF Len(s) >= width THEN s ELSE PadStart(<<c>> \o s, width, c)

NaN == "NaN"

RECURSIVE ParseDigits(_, _, _)
ParseDigits(s, i, acc) ==
  IF i > Len(s) \/ ~Occurs(DigitChars, s[i]) THEN acc
  ELSE ParseDigits(s, i + 1, acc * 10 + (IndexOf(DigitChars, s[i]) - 1))

\* parseInt(s) for s without sign or leading blanks: the value of the leading
\* run of decimal digits, NaN when s does not start with a digit
ParseInt(s) ==
  IF s = <<>> \/ ~Occurs(DigitChars, s[1]) THEN NaN ELSE ParseDigits(s, 1, 0)

RECURSIVE InsertSorted(_, _, _)
\* x goes after every element whose key is not smaller than its own
InsertSorted(sorted, x, key) ==
  IF sorted = <<>> THEN <<x>>
  ELSE IF key[x] > key[Head(sorted)] THEN <<x>> \o sorted
  ELSE <<Head(sorted)>> \o InsertSorted(Tail(sorted), x, key)

RECURSIVE SortDescending(_, _)
\* Array.prototype.sort((a, b) => key(b) - key(a)): a stable sort, greatest key first
SortDescending(s, key) ==
  IF s = <<>> THEN <<>>
  ELSE InsertSorted(SortDescending(SubSeq(s, 1, Len(s) - 1), key), s[Len(s)], key)

----------------------------------------------------------------------------
(* Product logic: productManager and paginationManager of both pages *)

\* the fields getFilteredProducts matches the keyword against
MatchFields(p) == <<p.id, p.name, p.species>>

MatchesKeyword(p, lowerKeyword) ==
  \E i \in 1..Len(MatchFields(p)) : Includes(ToLowerCase(MatchFields(p)[i]), lowerKeyword)

\* getFilteredProducts with the keyword compared as typed, not lower-cased
GetFilteredProductsCaseSensitive(hp, prods, keyword, showSold) ==
  LET keep(o) == MatchesKeyword(hp[o], keyword) /\ (showSold \/ hp[o].available)
  IN SelectSeq(prods, keep)

\* productManager.getFilteredProducts over the catalog prods of objects in hp
GetFilteredProducts(hp, prods, keyword, showSold) ==
  LET lowerKeyword == ToLowerCase(keyword)
      keep(o) == MatchesKeyword(hp[o], lowerKeyword) /\ (showSold \/ hp[o].available)
  IN SelectSeq(prods, keep)

\* getPaginatedProducts with the page taken as 0-based
GetPaginatedProductsZeroBased(list, page) ==
  LET start == page * ITEMS_PER_PAGE
  IN Slice(list, start, start + ITEMS_PER_PAGE)

\* productManager.getPaginatedProducts with state.currentPage = page
GetPaginatedProducts(list, page) ==
  LET start == (page - 1) * ITEMS_PER_PAGE
  IN Slice(list, start, start + ITEMS_PER_PAGE)

\* Math.ceil(n / d) for n >= 0, d > 0
Ceil(n, d) == IF n % d = 0 THEN n \div d ELSE (n \div d) + 1

\* paginationManager.getTotalPages
GetTotalPages(totalItems) == Ceil(totalItems, ITEMS_PER_PAGE)

\* calculatePageRange without the shift back of a window cut off at the last page
CalculatePageRangeNoShift(totalPages, page) ==
  IF totalPages <= MAX_VISIBLE_PAGES THEN [start |-> 1, end |-> totalPages]
  ELSE LET half == MAX_VISIBLE_PAGES \div 2
           start0 == Max(1, page - half)
       IN [start |-> start0, end |-> Min(totalPages, start0 + MAX_VISIBLE_PAGES - 1)]

\* paginationManager.calculatePageRange with state.currentPage = page
CalculatePageRange(totalPages, page) ==
  IF totalPages <= MAX_VISIBLE_PAGES THEN [start |-> 1, end |-> totalPages]
  ELSE LET half == MAX_VISIBLE_PAGES \div 2
           start0 == Max(1, page - half)
           end == Min(totalPages, start0 + MAX_VISIBLE_PAGES - 1)
           start == IF end - start0 < MAX_VISIBLE_PAGES - 1
                    THEN Max(1, end - MAX_VISIBLE_PAGES + 1) ELSE start0
       IN [start |-> start, end |-> end]

\* paginationManager.render: the navigation controls it leaves in the DOM
RenderPagination(totalItems, page) ==
  LET totalPages == GetTotalPages(totalItems)
  IN [totalPages |-> totalPages,
      prevDisabled |-> (page = 1),
      nextDisabled |-> (page = totalPages \/ totalPages = 0),
      range |-> CalculatePageRange(totalPages, page)]

\* Intl.NumberFormat('en', {style: 'currency', currency: 'USD'}).format(amount)
\* for a whole amount >= 0: "$", the digits grouped by three, ".00"
RECURSIVE GroupThousands(_)
GroupThousands(digits) ==
  IF Len(digits) <= 3 THEN digits
  ELSE GroupThousands(SubSeq(digits, 1, Len(digits) - 3)) \o <<",">>
       \o SubSeq(digits, Len(digits) - 2, Len(digits))

FormatCurrency(amount) == <<"$">> \o GroupThousands(NumToString(amount)) \o <<".", "0", "0">>

InCart(crt, productId) == \E i \in 1..Len(crt) : crt[i].id = productId

\* state.products.find(p => p.id === productId): the first such object, 0 for undefined
FindProduct(hp, prods, productId) ==
  IF \E i \in 1..Len(prods) : hp[prods[i]].id = productId
  THEN prods[CHOOSE i \in 1..Len(prods) :
               /\ hp[prods[i]].id = productId
               /\ \A j \in 1..(i - 1) : hp[prods[j]].id # productId]
  ELSE 0

\* toggleCartItem pushing the copy without looking for the identifier in the cart
ToggleCartItemNoLookup(hp, prods, crt, productId, isChecked) ==
  LET product == FindProduct(hp, prods, productId)
  IN IF product = 0 THEN crt
     ELSE IF isChecked THEN Append(crt, hp[product])
     ELSE SelectSeq(crt, LAMBDA item : item.id # productId)

\* productManager.toggleCartItem: state.cart after the call
ToggleCartItem(hp, prods, crt, productId, isChecked) ==
  LET product == FindProduct(hp, prods, productId)
  IN IF product = 0 THEN crt
     ELSE IF isChecked
          THEN IF ~InCart(crt, productId) THEN Append(crt, hp[product]) ELSE crt
          ELSE SelectSeq(crt, LAMBDA item : item.id # productId)

RECURSIVE SumPrices(_)
\* state.cart.reduce((sum, item) => sum + item.price, 0)
SumPrices(crt) == IF crt = <<>> THEN 0 ELSE SumPrices(SubSeq(crt, 1, Len(crt) - 1)) + crt[Len(crt)].price

\* cartView.updateCart: the count, the total and the order button it leaves in the DOM
UpdateCart(crt) ==
  [count |-> NumToString(Len(crt)),
   total |-> FormatCurrency(SumPrices(crt)),
   whatsappDisabled |-> (Len(crt) = 0)]

\* toggleCartItem without the closing cartView.updateCart()
CartViewAfterToggleStale(hp, prods, crt, shown, productId, isChecked) == shown

\* what productManager.toggleCartItem leaves displayed: the early return for an
\* unknown identifier skips cartView.updateCart()
CartViewAfterToggle(hp, prods, crt, shown, productId, isChecked) ==
  IF FindProduct(hp, prods, productId) = 0 THEN shown
  ELSE UpdateCart(ToggleCartItem(hp, prods, crt, productId, isChecked))

\* state.products after productManager.initialize sorted the fetched array by
\* new Date(b.created_at) - new Date(a.created_at)
SortNewestFirst(hp, prods) ==
  SortDescending(prods, [o \in DOMAIN hp |-> hp[o].created_at])

\* products.filter(p => !p.available).length
CountSoldOut(hp, prods) == Len(SelectSeq(prods, LAMBDA o : ~hp[o].available))

\* getNextId taking the first identifier's number, the numbers left unsorted
GetNextIdUnsorted(hp, prods) ==
  LET nums == [i \in 1..Len(prods) |-> ParseInt(Slice(hp[prods[i]].id, ID_PREFIX_LEN, Len(hp[prods[i]].id)))]
      next == IF Len(nums) > 0 THEN nums[1] + 1 ELSE 1
  IN <<"A", "P">> \o PadStart(NumToString(next), ID_PAD_WIDTH, "0")

\* getNextId of the admin page over the catalog prods
GetNextId(hp, prods) ==
  LET nums == [i \in 1..Len(prods) |-> ParseInt(Slice(hp[prods[i]].id, ID_PREFIX_LEN, Len(hp[prods[i]].id)))]
      ids == SortDescending(nums, [n \in {nums[i] : i \in 1..Len(nums)} |-> n])
      next == IF Len(ids) > 0 THEN ids[1] + 1 ELSE 1
  IN <<"A", "P">> \o PadStart(NumToString(next), ID_PAD_WIDTH, "0")

----------------------------------------------------------------------------
(* Inputs: catalogs as data/products.json delivers them, and keywords *)

Product(id, name, species, price, available, image, created) ==
  [id |-> id, name |-> name, species |-> species, price |-> price,
   available |-> available, image |-> image, created_at |-> created]

\* "AP" followed by n zero-padded to the identifier width
ApId(n) == <<"A", "P">> \o PadStart(NumToString(n), ID_PAD_WIDTH, "0")

Fern == <<"F", "e", "r", "n">>
Moss == <<"M", "o", "s", "s">>
Java == <<"J", "a", "v", "a">>
Reed == <<"r", "e", "e", "d">>
NoImage == <<>>
FernWebp == <<"f", ".", "w", "e", "b", "p">>

\* the catalog of the spec's identifier example: AP00001 and AP00003
CatalogTwo ==
  << Product(ApId(1), Fern, Java, 15, TRUE, FernWebp, 10),
     Product(ApId(3), Moss, Reed, 1200, FALSE, NoImage, 30) >>

\* the catalog of the spec's end-to-end scenario: 5 available items and 1 unavailable
CatalogSix ==
  << Product(ApId(1), Fern, Java, 15, TRUE, FernWebp, 10),
     Product(ApId(2), Moss, Java, 20, TRUE, NoImage, 60),
     Product(ApId(3), Fern, Reed, 5, FALSE, NoImage, 30),
     Product(ApId(4), Moss, Reed, 1200, TRUE, NoImage, 20),
     Product(ApId(5), Java, Fern, 7, TRUE, NoImage, 50),
     Product(ApId(6), Reed, Moss, 9, TRUE, NoImage, 40) >>

\* identifiers of several widths, among them the greatest five-digit one
CatalogWidths ==
  << Product(<<"A", "P", "7">>, Fern, Java, 15, TRUE, NoImage, 10),
     Product(ApId(7), Moss, Java, 20, TRUE, NoImage, 20),
     Product(ApId(99999), Reed, Reed, 5, FALSE, NoImage, 15),
     Product(<<"A", "P", "0", "4", "2">>, Java, Moss, 5, TRUE, NoImage, 5) >>

\* the same record fetched twice
CatalogRepeated ==
  << Product(ApId(2), Fern, Java, 15, TRUE, NoImage, 10),
     Product(ApId(2), Fern, Java, 15, TRUE, NoImage, 10),
     Product(ApId(1), Moss, Reed, 20, FALSE, NoImage, 10) >>

FnCatalogs == {<<>>, CatalogTwo, CatalogSix, CatalogWidths, CatalogRepeated}

Keywords ==
  { <<>>, <<"f">>, <<"F", "E">>, <<"a", "p", "0">>, <<"J", "a", "v", "a">>,
    <<"z">>, <<"s", "s">>, <<"0", "3">>, <<"R", "e", "e", "d", "s">> }

Iota(n) == [i \in 1..n |-> i]

----------------------------------------------------------------------------
(* The state after construction *)

NoCall == [fn |-> "none", args |-> <<>>, ret |-> <<>>]

InitialView ==
  [rendered |-> FALSE, keyword |-> <<>>, showSoldOut |-> FALSE, page |-> 1,
   count |-> 0, cards |-> <<>>, panel |-> "none", info |-> <<>>,
   totalPages |-> 0, prevDisabled |-> TRUE, nextDisabled |-> TRUE,
   range |-> [start |-> 1, end |-> 0]]

NoToggles == [id \in {} |-> "none"]

\* elements.productId of the product form before a modal was opened.  The other
\* fields of the form are written by the user before every submit: the submit
\* actions draw them, and the model keeps only the identifier field.
EmptyForm == [productId |-> <<>>]

NoImages == [name \in {} |-> "none"]

\* no download yet
NoArchive == [taken |-> FALSE, productsJson |-> <<>>, images |-> NoImages]

AdminIdle ==
  /\ editedProducts = <<>>
  /\ convertedImages = NoImages
  /\ editingProduct = 0
  /\ deleteTarget = 0
  /\ modal = FALSE
  /\ deleteModal = FALSE
  /\ form = EmptyForm
  /\ pending = <<>>
  /\ clock = 0
  /\ opens = 0
  /\ archive = NoArchive

----------------------------------------------------------------------------
(* Direct calls of the functions, on a loaded catalog *)

InitFn ==
  /\ heap \in FnCatalogs
  /\ products = SortNewestFirst(heap, Iota(Len(heap)))
  /\ cart = <<>>
  /\ currentPage \in 1..MaxTotalPages
  /\ soldoutCount = CountSoldOut(heap, products)
  /\ isLoading = FALSE
  /\ fetchState = "ok"
  /\ searchInput = <<>>
  /\ showSoldOut = FALSE
  /\ timer = FALSE
  /\ view = InitialView
  /\ cartView = UpdateCart(cart)
  /\ AdminIdle
  /\ call = NoCall
  /\ lastToggle = NoToggles

CallGetFilteredProducts ==
  \E k \in Keywords, s \in BOOLEAN :
    /\ call' = [fn |-> "getFilteredProducts", args |-> <<k, s>>,
                ret |-> GetFilteredProducts(heap, products, k, s)]
    /\ UNCHANGED <<stateVars, domVars, adminVars, lastToggle>>

\* getTotalPages(n), then getPaginatedProducts of an n-item list at page 1
CallStartPaging ==
  \E n \in 0..MaxItems :
    /\ currentPage' = 1
    /\ call' = [fn |-> "getPaginatedProducts", args |-> <<Iota(n)>>,
                total |-> GetTotalPages(n),
                ret |-> IF GetTotalPages(n) = 0 THEN <<>>
                        ELSE <<GetPaginatedProducts(Iota(n), 1)>>]
    /\ UNCHANGED <<heap, products, cart, soldoutCount, isLoading, fetchState,
                   domVars, adminVars, lastToggle>>

\* getPaginatedProducts of the same list at the next page
CallNextPaging ==
  /\ call.fn = "getPaginatedProducts"
  /\ Len(call.ret) < call.total
  /\ currentPage' = currentPage + 1
  /\ call' = [call EXCEPT !.ret = Append(@, GetPaginatedProducts(call.args[1], currentPage'))]
  /\ UNCHANGED <<heap, products, cart, soldoutCount, isLoading, fetchState,
                 domVars, adminVars, lastToggle>>

CallCalculatePageRange ==
  \E t \in 0..MaxTotalPages :
    /\ call' = [fn |-> "calculatePageRange", args |-> <<t, currentPage>>,
                ret |-> CalculatePageRange(t, currentPage)]
    /\ UNCHANGED <<stateVars, domVars, adminVars, lastToggle>>

CallGetNextId ==
  /\ call' = [fn |-> "getNextId", args |-> <<>>, ret |-> GetNextId(heap, products)]
  /\ UNCHANGED <<stateVars, domVars, adminVars, lastToggle>>

NextFn ==
  \/ CallGetFilteredProducts
  \/ CallStartPaging
  \/ CallNextPaging
  \/ CallCalculatePageRange
  \/ CallGetNextId

SpecFn == InitFn /\ [][NextFn]_vars

\* the identifiers of state.products
CatalogIds == {heap[products[i]].id : i \in 1..Len(products)}

----------------------------------------------------------------------------
(* Direct calls of productManager.toggleCartItem, on a loaded catalog *)

CatalogThree ==
  << Product(ApId(1), Fern, Java, 15, TRUE, FernWebp, 30),
     Product(ApId(2), Moss, Java, 1200, TRUE, NoImage, 20),
     Product(ApId(3), Reed, Reed, 5, TRUE, NoImage, 10) >>

CartCatalogs == {<<>>, CatalogTwo, CatalogThree, CatalogRepeated}

\* an identifier no catalog holds
ForeignId == ApId(404)

InitCart ==
  /\ heap \in CartCatalogs
  /\ products = SortNewestFirst(heap, Iota(Len(heap)))
  /\ cart = <<>>
  /\ currentPage = 1
  /\ soldoutCount = CountSoldOut(heap, products)
  /\ isLoading = FALSE
  /\ fetchState = "ok"
  /\ searchInput = <<>>
  /\ showSoldOut = FALSE
  /\ timer = FALSE
  /\ view = InitialView
  /\ cartView = UpdateCart(cart)
  /\ AdminIdle
  /\ call = NoCall
  /\ lastToggle = [id \in {heap[o].id : o \in DOMAIN heap} \cup {ForeignId} |-> "none"]

CallToggleCartItem ==
  \E productId \in DOMAIN lastToggle, isChecked \in BOOLEAN :
    /\ cart' = ToggleCartItem(heap, products, cart, productId, isChecked)
    /\ cartView' = CartViewAfterToggle(heap, products, cart, cartView, productId, isChecked)
    /\ lastToggle' = [lastToggle EXCEPT ![productId] = IF isChecked THEN "on" ELSE "off"]
    /\ call' = [fn |-> "toggleCartItem", args |-> <<productId, isChecked>>, before |-> cart]
    /\ UNCHANGED <<heap, products, currentPage, soldoutCount, isLoading, fetchState,
                   searchInput, showSoldOut, timer, view, adminVars>>

NextCart == CallToggleCartItem

SpecCart == InitCart /\ [][NextCart]_vars

\* C3: after any sequence of toggleCartItem calls the cart holds at most one
\* entry per identifier and a catalog product is in the cart exactly if its most
\* recent toggle was "on"; "on" for an identifier already in the cart leaves the
\* cart as it was, and "off" leaves no entry of the identifier.
C3_CartToggles ==
  /\ \A i, j \in 1..Len(cart) : cart[i].id = cart[j].id => i = j
  /\ \A id \in CatalogIds : InCart(cart, id) <=> lastToggle[id] = "on"
  /\ call.fn = "toggleCartItem" =>
       /\ (call.args[2] /\ InCart(call.before, call.args[1])) => cart = call.before
       /\ ~call.args[2] => ~InCart(cart, call.args[1])

\* "on" was toggled for a product already in a cart of two
C3_Witness ==
  /\ call.fn = "toggleCartItem"
  /\ call.args[2]
  /\ InCart(call.before, call.args[1])
  /\ Len(cart) = 2

----------------------------------------------------------------------------
(* Views of the shopper page *)

DataImagesDir == <<"d", "a", "t", "a", "/", "i", "m", "a", "g", "e", "s", "/">>
PlaceholderUrl == <<"https://images.unsplash.com/photo-1559496417-e7f25cb247f3">>

\* the image source of a product card
ImageSrc(p) == IF p.image # <<>> THEN DataImagesDir \o p.image ELSE PlaceholderUrl

\* createProductCard never restoring the checked state from the cart
ShopCardUnchecked(hp, crt, o) ==
  [oid |-> o, id |-> hp[o].id, imageSrc |-> ImageSrc(hp[o]),
   disabled |-> ~hp[o].available, checked |-> FALSE]

\* createProductCard leaving the checkbox of a sold-out product enabled
ShopCardNeverDisabled(hp, crt, o) ==
  [oid |-> o, id |-> hp[o].id, imageSrc |-> ImageSrc(hp[o]),
   disabled |-> FALSE, checked |-> InCart(crt, hp[o].id)]

\* productView.createProductCard of the shopper page: the card of object o
ShopCard(hp, crt, o) ==
  [oid |-> o, id |-> hp[o].id, imageSrc |-> ImageSrc(hp[o]),
   disabled |-> ~hp[o].available, checked |-> InCart(crt, hp[o].id)]

\* productView.updateFilterInfo: the values the message interpolates
FilterInfo(prods, page, sold, chk, visibleCount) ==
  LET hidden == IF chk THEN 0 ELSE sold
  IN [page |-> page, showing |-> visibleCount, of |-> Len(prods) - hidden]

\* productView.createProductCard of the admin page, with its edit and delete buttons
AdminCard(hp, o) ==
  [oid |-> o, id |-> hp[o].id, imageSrc |-> ImageSrc(hp[o]), soldOut |-> ~hp[o].available]

\* productView.updateView with the card maker of the page, "shop" or "admin":
\* what it leaves in the DOM
UpdateViewWith(pageKind, hp, prods, crt, page, sold, input, chk) ==
  LET keyword == Trim(input)
      filtered == GetFilteredProducts(hp, prods, keyword, chk)
      paginated == GetPaginatedProducts(filtered, page)
      nav == RenderPagination(Len(filtered), page)
  IN [rendered |-> TRUE, keyword |-> keyword, showSoldOut |-> chk, page |-> page,
      count |-> Len(filtered),
      cards |-> [i \in 1..Len(paginated) |->
                   IF pageKind = "shop" THEN ShopCard(hp, crt, paginated[i])
                   ELSE AdminCard(hp, paginated[i])],
      panel |-> IF paginated = <<>> THEN "notfound" ELSE "products",
      info |-> FilterInfo(prods, page, sold, chk, Len(filtered)),
      totalPages |-> nav.totalPages, prevDisabled |-> nav.prevDisabled,
      nextDisabled |-> nav.nextDisabled, range |-> nav.range]

\* productView.updateView of the shopper page
UpdateView(hp, prods, crt, page, sold, input, chk) ==
  UpdateViewWith("shop", hp, prods, crt, page, sold, input, chk)

\* productView.updateView of the admin page, which displays no cart
AdminUpdateView(hp, prods, page, sold, input, chk) ==
  UpdateViewWith("admin", hp, prods, <<>>, page, sold, input, chk)

\* productView.updateView of the page that runs: "shop" or "admin"
DrawView(pageKind, hp, prods, crt, page, sold, input, chk) ==
  IF pageKind = "shop" THEN UpdateView(hp, prods, crt, page, sold, input, chk)
  ELSE AdminUpdateView(hp, prods, page, sold, input, chk)

\* productView.showError: the error panel over whatever was displayed
ShowError(v) == [v EXCEPT !.info = <<>>, !.panel = "error"]

----------------------------------------------------------------------------
(* What the two pages share: the catalog fetch and the listeners of
   setupEventListeners *)

\* what the user leaves in the search box
SearchTexts == { <<>>, <<"m", "o">>, <<" ", "J", "A", "V", "A", " ">>, <<"z">> }

\* fetchProducts resolves with the catalog fetched and productManager.initialize
\* goes on: the fetched objects are new ones, and their array replaces state.products
FetchResolves(pageKind, fetched) ==
  /\ fetchState = "pending"
  /\ heap' = heap \o fetched
  /\ products' = SortNewestFirst(heap', [i \in 1..Len(fetched) |-> Len(heap) + i])
  /\ soldoutCount' = CountSoldOut(heap', products')
  /\ isLoading' = FALSE
  /\ fetchState' = "ok"
  /\ view' = DrawView(pageKind, heap', products', cart, currentPage, soldoutCount',
                      searchInput, showSoldOut)
  /\ UNCHANGED <<cart, currentPage, searchInput, showSoldOut, timer, cartView,
                 adminVars, harnessVars>>

\* fetchProducts throws (response not ok, or a body that does not parse)
FetchFail ==
  /\ fetchState = "pending"
  /\ isLoading' = FALSE
  /\ fetchState' = "failed"
  /\ view' = ShowError(view)
  /\ UNCHANGED <<heap, products, cart, currentPage, soldoutCount, searchInput,
                 showSoldOut, timer, cartView, adminVars, harnessVars>>

\* an input event of the search box leaving text in it: the debounced listener
\* (re)arms its timer
SearchInputTyped(text) ==
  /\ text # searchInput
  /\ searchInput' = text
  /\ timer' = TRUE
  /\ UNCHANGED <<stateVars, showSoldOut, view, cartView, adminVars, harnessVars>>

\* a listener that sets state.currentPage to page and calls productView.updateView()
GoToPage(pageKind, page) ==
  /\ currentPage' = page
  /\ view' = DrawView(pageKind, heap, products, cart, page, soldoutCount,
                      searchInput', showSoldOut')
  /\ UNCHANGED <<heap, products, cart, soldoutCount, isLoading, fetchState,
                 cartView, adminVars, harnessVars>>

\* the debounce timer fires and runs the listener of the search box
SearchTimer(pageKind) ==
  /\ timer
  /\ timer' = FALSE
  /\ UNCHANGED <<searchInput, showSoldOut>>
  /\ GoToPage(pageKind, 1)

\* change event of the "show sold out" checkbox
SoldOutChange(pageKind) ==
  /\ showSoldOut' = ~showSoldOut
  /\ UNCHANGED <<searchInput, timer>>
  /\ GoToPage(pageKind, 1)

\* click on the previous button, which is not disabled
Prev(pageKind) ==
  /\ ~view.prevDisabled
  /\ UNCHANGED <<searchInput, showSoldOut, timer>>
  /\ GoToPage(pageKind, currentPage - 1)

\* click on the next button, which is not disabled (the model stops counting at MaxPage)
Next(pageKind) ==
  /\ ~view.nextDisabled
  /\ currentPage < MaxPage
  /\ UNCHANGED <<searchInput, showSoldOut, timer>>
  /\ GoToPage(pageKind, currentPage + 1)

\* click on the page-number button i the last render made
PageButton(pageKind, i) ==
  /\ i \in view.range.start..view.range.end
  /\ UNCHANGED <<searchInput, showSoldOut, timer>>
  /\ GoToPage(pageKind, i)

----------------------------------------------------------------------------
(* The shopper page *)

ShopCatalogs == {<<>>, CatalogTwo, CatalogSix}

\* init(): the inputs reset, the listeners set, the fetch started by
\* productManager.initialize() and the cart panel drawn by cartView.updateCart()
InitShop ==
  /\ heap = <<>>
  /\ products = <<>>
  /\ cart = <<>>
  /\ currentPage = 1
  /\ soldoutCount = 0
  /\ isLoading = TRUE
  /\ fetchState = "pending"
  /\ searchInput = <<>>
  /\ showSoldOut = FALSE
  /\ timer = FALSE
  /\ view = InitialView
  /\ cartView = UpdateCart(cart)
  /\ AdminIdle
  /\ call = NoCall
  /\ lastToggle = NoToggles

FetchOk == \E fetched \in ShopCatalogs : FetchResolves("shop", fetched)

SearchInputEvent == \E text \in SearchTexts : SearchInputTyped(text)

SearchTimerFires == SearchTimer("shop")

ShowSoldOutChange == SoldOutChange("shop")

PrevClick == Prev("shop")

NextClick == Next("shop")

PageButtonClick == \E i \in 1..MaxPage : PageButton("shop", i)

\* change event of the checkbox of a displayed card, which is not disabled
CardCheckboxChange ==
  \E j \in 1..Len(view.cards) :
    LET card == view.cards[j]
        isChecked == ~card.checked
    IN /\ ~card.disabled
       /\ cart' = ToggleCartItem(heap, products, cart, card.id, isChecked)
       /\ cartView' = CartViewAfterToggle(heap, products, cart, cartView, card.id, isChecked)
       /\ view' = [view EXCEPT !.cards[j].checked = isChecked]
       /\ UNCHANGED <<heap, products, currentPage, soldoutCount, isLoading, fetchState,
                      searchInput, showSoldOut, timer, adminVars, harnessVars>>

NextShop ==
  \/ FetchOk
  \/ FetchFail
  \/ SearchInputEvent
  \/ SearchTimerFires
  \/ ShowSoldOutChange
  \/ PrevClick
  \/ NextClick
  \/ PageButtonClick
  \/ CardCheckboxChange

SpecShop == InitShop /\ [][NextShop]_vars

----------------------------------------------------------------------------
(* The admin page *)

CatalogFive ==
  << Product(ApId(1), Fern, Java, 15, TRUE, FernWebp, 10),
     Product(ApId(2), Moss, Java, 20, TRUE, NoImage, 50),
     Product(ApId(3), Fern, Reed, 5, TRUE, NoImage, 30),
     Product(ApId(4), Moss, Reed, 1200, FALSE, NoImage, 20),
     Product(ApId(5), Java, Fern, 7, TRUE, NoImage, 40) >>

AdminCatalogs == {<<>>, CatalogTwo, CatalogFive}

AdminSearchTexts == { <<>>, <<"m", "o">> }

JavaFern == <<"J", "a", "v", "a", " ", "F", "e", "r", "n">>

\* what the user types in the name, species and price fields and ticks in the
\* availability box before a submit
FormFills ==
  { [name |-> JavaFern, species |-> Reed, price |-> <<"7">>, available |-> TRUE],
    [name |-> Moss, species |-> Java, price |-> <<"1", "2">>, available |-> FALSE] }

\* what the file input can hold: nothing, an image, a file that is no image
FileChoices == {"none", "image", "broken"}

\* parseFloat of the price field, which holds digits or nothing
ParseFloat(text) == ParseInt(text)

\* new Date().toISOString() as an instant later than every fetched created_at;
\* the clock of the model ticks when a product is created
Now == 100 + clock

Underscore == <<"_">>
WebpSuffix == <<".", "w", "e", "b", "p">>

RECURSIVE ReplaceSpaceRuns(_)
\* String.prototype.replace(/\s+/g, '_')
ReplaceSpaceRuns(text) ==
  IF text = <<>> THEN <<>>
  ELSE IF IsSpace(Head(text))
       THEN Underscore \o ReplaceSpaceRuns(TrimStart(text))
       ELSE <<Head(text)>> \o ReplaceSpaceRuns(Tail(text))

\* the output name the submit handler gives the re-encoded image
ImageFileName(id, name) == id \o Underscore \o ReplaceSpaceRuns(ToLowerCase(name)) \o WebpSuffix

InitAdmin ==
  /\ heap = <<>>
  /\ products = <<>>
  /\ cart = <<>>
  /\ currentPage = 1
  /\ soldoutCount = 0
  /\ isLoading = TRUE
  /\ fetchState = "pending"
  /\ searchInput = <<>>
  /\ showSoldOut = FALSE
  /\ timer = FALSE
  /\ view = InitialView
  /\ cartView = UpdateCart(cart)
  /\ AdminIdle
  /\ call = NoCall
  /\ lastToggle = NoToggles

AdminFetchOk == \E fetched \in AdminCatalogs : FetchResolves("admin", fetched)

AdminSearchInputEvent == \E text \in AdminSearchTexts : SearchInputTyped(text)

AdminSearchTimerFires == SearchTimer("admin")

AdminShowSoldOutChange == SoldOutChange("admin")

AdminPrevClick == Prev("admin")

AdminNextClick == Next("admin")

AdminPageButtonClick == \E i \in 1..MaxPage : PageButton("admin", i)

\* closeModal
CloseModal ==
  /\ modal' = FALSE
  /\ deleteModal' = FALSE

\* openAddModal, the click listener of the add button
OpenAddModal ==
  /\ editingProduct' = 0
  /\ form' = [EmptyForm EXCEPT !.productId = GetNextId(heap, products)]
  /\ modal' = TRUE
  /\ opens < MaxOpens /\ opens' = opens + 1
  /\ UNCHANGED <<stateVars, domVars, editedProducts, convertedImages, deleteTarget,
                 deleteModal, pending, clock, archive, harnessVars>>

\* openEditModal(product), the click listener of the edit button of a displayed card
OpenEditModal ==
  \E j \in 1..Min(MaxCardClick, Len(view.cards)) :
    LET product == view.cards[j].oid
    IN /\ editingProduct' = product
       /\ form' = [form EXCEPT !.productId = heap[product].id]
       /\ modal' = TRUE
       /\ opens < MaxOpens /\ opens' = opens + 1
       /\ UNCHANGED <<stateVars, domVars, editedProducts, convertedImages, deleteTarget,
                      deleteModal, pending, clock, archive, harnessVars>>

\* openDeleteModal(product), the click listener of the delete button of a displayed card
OpenDeleteModal ==
  \E j \in 1..Min(MaxCardClick, Len(view.cards)) :
    /\ deleteTarget' = view.cards[j].oid
    /\ deleteModal' = TRUE
    /\ opens < MaxOpens /\ opens' = opens + 1
    /\ UNCHANGED <<stateVars, domVars, editedProducts, convertedImages, editingProduct,
                   modal, form, pending, clock, archive, harnessVars>>

\* click on the close button of the product modal, which is displayed
ModalCloseClick ==
  /\ modal
  /\ CloseModal
  /\ UNCHANGED <<stateVars, domVars, editedProducts, convertedImages, editingProduct,
                 deleteTarget, form, pending, clock, opens, archive, harnessVars>>

\* click on the cancel button of the delete modal, which is displayed
CancelDeleteClick ==
  /\ deleteModal
  /\ CloseModal
  /\ UNCHANGED <<stateVars, domVars, editedProducts, convertedImages, editingProduct,
                 deleteTarget, form, pending, clock, opens, archive, harnessVars>>

\* the submit handler from "if (state.editingProduct)" to its end, for the values
\* sub it read from the form and the image reference it arrived at
FinishSubmit(sub, image) ==
  /\ Len(editedProducts) < MaxOps
  /\ IF editingProduct # 0
     THEN /\ heap' = [heap EXCEPT ![editingProduct] =
                        [@ EXCEPT !.name = sub.name, !.species = sub.species,
                                  !.price = sub.price, !.available = sub.available,
                                  !.image = image]]
          /\ products' = products
          /\ clock' = clock
     ELSE /\ heap' = Append(heap, Product(sub.id, sub.name, sub.species, sub.price,
                                          sub.available, image, sub.createdAt))
          /\ products' = <<Len(heap) + 1>> \o products
          /\ clock' = clock + 1
  /\ editedProducts' = Append(editedProducts, sub.id)
  /\ view' = AdminUpdateView(heap', products', currentPage, soldoutCount, searchInput, showSoldOut)
  /\ CloseModal
  /\ UNCHANGED <<cart, currentPage, soldoutCount, isLoading, fetchState, searchInput,
                 showSoldOut, timer, cartView, editingProduct, deleteTarget, opens, archive, harnessVars>>

\* what the submit handler reads before its first await, from the form as the
\* user filled it; target is the state.editingProduct it read createdAt and the
\* image from (0 for null: the submission of an add)
Submission(fill, file) ==
  [target |-> editingProduct, id |-> form.productId, name |-> Trim(fill.name), species |-> Trim(fill.species),
   price |-> ParseFloat(fill.price), available |-> fill.available, file |-> file,
   createdAt |-> IF editingProduct # 0 THEN heap[editingProduct].created_at ELSE Now,
   outputName |-> ImageFileName(form.productId, Trim(fill.name))]

\* the user fills the displayed form and submits it with no file chosen: the
\* handler runs to its end
SubmitWithoutFile ==
  \E fill \in FormFills :
    /\ modal
    /\ FinishSubmit(Submission(fill, "none"),
                    IF editingProduct # 0 THEN heap[editingProduct].image ELSE <<>>)
    /\ UNCHANGED <<convertedImages, form, pending>>

\* a submit handler suspended on a promise that never settles: it never resumes,
\* so only its existence is kept, not the values it holds
Stalled == [file |-> "broken"]

\* the user fills the displayed form and submits it with a file chosen: the
\* handler is suspended at await convertImageToWebP(file, imageFileName)
SubmitWithFile ==
  \E fill \in FormFills, file \in FileChoices \ {"none"} :
    /\ modal
    /\ Len(pending) < MaxPending
    /\ pending' = Append(pending, IF file = "broken" THEN Stalled ELSE Submission(fill, file))
    /\ UNCHANGED <<stateVars, domVars, editedProducts, convertedImages, editingProduct,
                   deleteTarget, modal, deleteModal, form, clock, opens, archive, harnessVars>>

RemoveAt(seq, i) == SubSeq(seq, 1, i - 1) \o SubSeq(seq, i + 1, Len(seq))

\* convertImageToWebP decodes the file of a suspended submission, stores the blob
\* under its output name and resolves; the submit handler resumes and runs to its
\* end.  A file that is no image never fires img.onload: the promise stays pending.
\* convertImageToWebP resolving without storing the blob
PromiseSettlesNoStore(i) ==
  /\ pending[i].file = "image"
  /\ convertedImages' = convertedImages
  /\ pending' = RemoveAt(pending, i)

\* the promise of convertImageToWebP for the suspended submission at position i
\* settles: img.onload ... canvas.toBlob stores the blob under the output name and
\* calls resolve.  Nothing else settles it: there is no reject and no onerror.
PromiseSettles(i) ==
  /\ pending[i].file = "image"
  /\ convertedImages' = (pending[i].outputName :> pending[i].file) @@ convertedImages
  /\ pending' = RemoveAt(pending, i)

ConvertResolves ==
  \E i \in 1..Len(pending) :
    /\ PromiseSettles(i)
    /\ FinishSubmit(pending[i], pending[i].outputName)
    /\ UNCHANGED form

\* the click listener of the confirm button of the delete modal, which is displayed
ConfirmDeleteClick ==
  /\ deleteModal
  /\ Len(editedProducts) < MaxOps
  /\ products' = SelectSeq(products, LAMBDA o : heap[o].id # heap[deleteTarget].id)
  /\ editedProducts' = Append(editedProducts, heap[deleteTarget].id)
  /\ view' = AdminUpdateView(heap, products', currentPage, soldoutCount, searchInput, showSoldOut)
  /\ CloseModal
  /\ UNCHANGED <<heap, cart, currentPage, soldoutCount, isLoading, fetchState, searchInput,
                 showSoldOut, timer, cartView, convertedImages, editingProduct, deleteTarget,
                 form, pending, clock, opens, archive, harnessVars>>

NextAdmin ==
  \/ AdminFetchOk
  \/ FetchFail
  \/ AdminSearchInputEvent
  \/ AdminSearchTimerFires
  \/ AdminShowSoldOutChange
  \/ AdminPrevClick
  \/ AdminNextClick
  \/ AdminPageButtonClick
  \/ OpenAddModal
  \/ OpenEditModal
  \/ OpenDeleteModal
  \/ ModalCloseClick
  \/ CancelDeleteClick
  \/ SubmitWithoutFile
  \/ SubmitWithFile
  \/ ConvertResolves
  \/ ConfirmDeleteClick

SpecAdmin == InitAdmin /\ [][NextAdmin]_vars

\* JSON.stringify(state.products, null, 2): the records of the catalog by value,
\* in catalog order
ProductsJson(hp, prods) == [i \in 1..Len(prods) |-> hp[prods[i]]]

\* elements.downloadZipBtn.onclick: products.json and one images/ entry per
\* entry of state.convertedImages go into the archive before the handler's await
DownloadZipClick ==
  /\ archive' = [taken |-> TRUE, productsJson |-> ProductsJson(heap, products),
                 images |-> convertedImages]
  /\ UNCHANGED <<stateVars, domVars, editedProducts, convertedImages, editingProduct,
                 deleteTarget, modal, deleteModal, form, pending, clock, opens,
                 harnessVars>>

\* the catalog operations of the admin page and the export, the filter and the
\* page left as they are
NextExport ==
  \/ AdminFetchOk
  \/ FetchFail
  \/ OpenAddModal
  \/ OpenEditModal
  \/ OpenDeleteModal
  \/ ModalCloseClick
  \/ CancelDeleteClick
  \/ SubmitWithoutFile
  \/ SubmitWithFile
  \/ ConvertResolves
  \/ ConfirmDeleteClick
  \/ DownloadZipClick

SpecExport == InitAdmin /\ [][NextExport]_vars

----------------------------------------------------------------------------
(* Properties of the admin page, checked under SpecAdmin *)

\* the step completes a submit handler: only such a step changes a record or
\* creates one once the fetch has settled
SubmitCompletes == heap' # heap /\ fetchState' = fetchState

\* the step resumes the suspended handler at position i of pending
Resumes(i) == i \in 1..Len(pending) /\ pending[i] # Stalled /\ pending' = RemoveAt(pending, i)

\* the frame of an edit of record t: nothing but t's name, species, price,
\* availability and image may differ after the step
EditFrame(t) ==
  /\ products' = products
  /\ Len(heap') = Len(heap)
  /\ \A o \in 1..Len(heap) : o # t => heap'[o] = heap[o]
  /\ heap'[t].id = heap[t].id
  /\ heap'[t].created_at = heap[t].created_at

\* C10: in the admin page the ids of the records of the catalog stay pairwise
\* distinct, whatever the sequence of add, edit and delete operations,
\* including a second submission or a reopening of the add modal while the
\* image of an earlier submission is still being re-encoded.
C10_IdsPairwiseDistinct ==
  \A i, j \in 1..Len(products) :
    heap[products[i]].id = heap[products[j]].id => i = j

----------------------------------------------------------------------------
(* Properties of the functions, checked under SpecFn *)

RECURSIVE Flatten(_)
Flatten(ss) == IF ss = <<>> THEN <<>> ELSE Head(ss) \o Flatten(Tail(ss))

\* t occurs in s as a contiguous run
IsSubstring(t, s) == \E i \in 0..(Len(s) - Len(t)) : \A j \in 1..Len(t) : s[i + j] = t[j]

\* the match-and-visibility predicate of the filter
MatchAndVisible(p, k, s) ==
  /\ \E f \in {p.id, p.name, p.species} : IsSubstring(ToLowerCase(k), ToLowerCase(f))
  /\ s \/ p.available

KeptPositions(k, s) == {i \in 1..Len(products) : MatchAndVisible(heap[products[i]], k, s)}

\* the j-th smallest element of the set S of numbers
NthOf(S, j) == CHOOSE i \in S : Cardinality({x \in S : x < i}) = j - 1

\* C1: getFilteredProducts(k, s) returns exactly the catalog products that match
\* k (case-insensitive substring of id, name or species) and are visible under
\* s, each catalog position once and in catalog order; getFilteredProducts("",
\* true) is the whole catalog.
C1_FilterExact ==
  call.fn = "getFilteredProducts" =>
    LET k == call.args[1]
        s == call.args[2]
        kept == KeptPositions(k, s)
    IN /\ call.ret = [j \in 1..Cardinality(kept) |-> products[NthOf(kept, j)]]
       /\ (k = <<>> /\ s) => call.ret = products

\* an upper-case keyword matched lower-case text, and a matching product was
\* left out because it is sold out
C1_Witness ==
  /\ call.fn = "getFilteredProducts"
  /\ call.args = <<(<<"F", "E">>), FALSE>>
  /\ Len(call.ret) >= 2
  /\ \E i \in 1..Len(products) :
       /\ MatchAndVisible(heap[products[i]], call.args[1], TRUE)
       /\ ~heap[products[i]].available
       /\ \A j \in 1..Len(call.ret) : call.ret[j] # products[i]

\* C2: for a list of n items getTotalPages(n) is ceil(n/4); the slices of pages
\* 1..ceil(n/4), concatenated in page order, are the list; every page but the
\* last has 4 items and the last has 1 to 4.
C2_PagesPartition ==
  call.fn = "getPaginatedProducts" =>
    LET list == call.args[1]
        n == Len(list)
        pages == call.ret
    IN /\ call.total * ITEMS_PER_PAGE >= n
       /\ (call.total - 1) * ITEMS_PER_PAGE < n
       /\ \A j \in 1..Len(pages) :
            /\ j < call.total => Len(pages[j]) = ITEMS_PER_PAGE
            /\ j = call.total => Len(pages[j]) \in 1..ITEMS_PER_PAGE
       /\ Flatten(pages) = SubSeq(list, 1, Len(Flatten(pages)))
       /\ Len(pages) = call.total => Flatten(pages) = list

\* all three pages of a 9-item list were taken, the last one short
C2_Witness ==
  /\ call.fn = "getPaginatedProducts"
  /\ Len(call.args[1]) = 9
  /\ Len(call.ret) = 3
  /\ call.ret[3] = <<9>>

\* C6: for totalPages >= 0 and a current page in [1, max(1, totalPages)] the
\* window has start >= 1, end <= totalPages and min(5, totalPages) buttons; it
\* is [1, totalPages] when totalPages <= 5; otherwise it contains the current
\* page and is [current-2, current+2], shifted to [1, 5] or
\* [totalPages-4, totalPages] where that would leave [1, totalPages].
C6_PageWindow ==
  call.fn = "calculatePageRange" =>
    LET t == call.args[1]
        cur == call.args[2]
        r == call.ret
    IN cur \in 1..Max(1, t) =>
         /\ r.start >= 1
         /\ r.end <= t
         /\ r.end - r.start + 1 = Min(MAX_VISIBLE_PAGES, t)
         /\ t <= MAX_VISIBLE_PAGES => r = [start |-> 1, end |-> t]
         /\ t > MAX_VISIBLE_PAGES =>
              /\ cur \in r.start..r.end
              /\ r = IF cur - 2 < 1 THEN [start |-> 1, end |-> MAX_VISIBLE_PAGES]
                     ELSE IF cur + 2 > t THEN [start |-> t - 4, end |-> t]
                     ELSE [start |-> cur - 2, end |-> cur + 2]

\* the window of the last of 9 pages was shifted back to [5, 9]
C6_Witness ==
  /\ call.fn = "calculatePageRange"
  /\ call.args = <<9, 9>>
  /\ call.ret = [start |-> 5, end |-> 9]

IsDigits(s) == Len(s) >= 1 /\ \A i \in 1..Len(s) : Occurs(DigitChars, s[i])

\* "AP" followed by a decimal number
IsApId(id) == Len(id) >= 3 /\ SubSeq(id, 1, 2) = <<"A", "P">> /\ IsDigits(SubSeq(id, 3, Len(id)))

RECURSIVE Pow10(_)
Pow10(e) == IF e = 0 THEN 1 ELSE 10 * Pow10(e - 1)

RECURSIVE DecimalValue(_)
\* the number a string of decimal digits denotes
DecimalValue(d) ==
  IF d = <<>> THEN 0
  ELSE (IndexOf(DigitChars, Head(d)) - 1) * Pow10(Len(d) - 1) + DecimalValue(Tail(d))

\* C9: over a catalog of "AP"+number identifiers getNextId() is "AP" followed by
\* the greatest numeric suffix plus one, zero-padded to 5 digits, "AP00001" for
\* the empty catalog, and never an identifier of the catalog.
C9_NextId ==
  (call.fn = "getNextId" /\ \A id \in CatalogIds : IsApId(id)) =>
    LET suffixes == {DecimalValue(SubSeq(id, 3, Len(id))) : id \in CatalogIds}
        next == IF suffixes = {} THEN 1
                ELSE 1 + CHOOSE m \in suffixes : \A x \in suffixes : x <= m
        digits == call.ret
    IN /\ Len(digits) >= 2 + ID_PAD_WIDTH
       /\ SubSeq(digits, 1, 2) = <<"A", "P">>
       /\ IsDigits(SubSeq(digits, 3, Len(digits)))
       /\ DecimalValue(SubSeq(digits, 3, Len(digits))) = next
       /\ Len(digits) > 2 + ID_PAD_WIDTH => digits[3] # "0"
       /\ products = <<>> => digits = <<"A", "P", "0", "0", "0", "0", "1">>
       /\ digits \notin CatalogIds

\* the spec's example: AP00001 and AP00003 give AP00004
C9_Witness ==
  /\ call.fn = "getNextId"
  /\ CatalogIds = {<<"A", "P", "0", "0", "0", "0", "1">>, <<"A", "P", "0", "0", "0", "0", "3">>}
  /\ call.ret = <<"A", "P", "0", "0", "0", "0", "4">>

----------------------------------------------------------------------------
(* Properties of the shopper page, checked under SpecShop *)

\* C4: no view is rendered with a keyword or a sold-out flag other than the
\* previously rendered ones while the current page is other than 1.
C4_FilterChangeResetsPage ==
  [][(view'.keyword # view.keyword \/ view'.showSoldOut # view.showSoldOut)
       => view'.page = 1]_vars

\* C5: after any sequence of UI events the current page is within
\* [1, totalPages] of the filtered list on display when that list is not empty,
\* and is 1 when it is empty.
C5_PageWithinRange ==
  view.rendered =>
    /\ view.count > 0 => currentPage \in 1..GetTotalPages(view.count)
    /\ view.count = 0 => currentPage = 1

\* C7: in every rendered view whose filtered count is 0, total pages is 0, no
\* page-number button is shown and both the previous and the next control are
\* disabled.
C7_EmptyViewControls ==
  (view.rendered /\ view.count = 0) =>
    /\ view.totalPages = 0
    /\ view.range.end < view.range.start
    /\ view.prevDisabled
    /\ view.nextDisabled

RECURSIVE SumOfPrices(_)
SumOfPrices(entries) == IF entries = <<>> THEN 0 ELSE Head(entries).price + SumOfPrices(Tail(entries))

\* the amount a "$d,ddd.00" string displays; -1 if it is not of that shape
DisplayedAmount(shown) ==
  LET n == Len(shown)
      whole == SelectSeq(SubSeq(shown, 2, n - 3), LAMBDA c : c # ",")
  IN IF n >= 5 /\ shown[1] = "$" /\ SubSeq(shown, n - 2, n) = <<".", "0", "0">> /\ IsDigits(whole)
     THEN DecimalValue(whole) ELSE 0 - 1

\* C8: in every state after init and after every cart toggle the displayed cart
\* count is the number of cart entries, the displayed total is the sum of their
\* prices, and the order button is disabled exactly when the cart is empty.
C8_CartPanel ==
  /\ IsDigits(cartView.count) /\ DecimalValue(cartView.count) = Len(cart)
  /\ DisplayedAmount(cartView.total) = SumOfPrices(cart)
  /\ cartView.whatsappDisabled <=> (cart = <<>>)

\* two products were toggled into the cart and the panel shows 2 and $1,215.00
C8_Witness ==
  /\ Len(cart) = 2
  /\ cartView.count = <<"2">>
  /\ cartView.total = <<"$", "1", ",", "2", "1", "5", ".", "0", "0">>
  /\ ~cartView.whatsappDisabled

----------------------------------------------------------------------------
(* Properties of the admin operations, checked under SpecAdmin *)

\* C11: the submission of an edit opened for record T changes only T's name,
\* species, price, availability and image; T's identifier and creation
\* timestamp, every other record, the length and the order of the catalog are
\* unchanged and no record is created, also when the modal was closed or another
\* add/edit modal was opened while the image was being re-encoded.
C11_EditFrame ==
  [][SubmitCompletes =>
       /\ (pending' = pending /\ editingProduct # 0) => EditFrame(editingProduct)
       /\ \A i \in 1..Len(pending) :
            (Resumes(i) /\ pending[i].target # 0) => EditFrame(pending[i].target)]_vars

\* the step is the confirm of the delete modal: only it shortens the catalog once
\* the fetch has settled
ConfirmStep == deleteModal /\ Len(products') < Len(products) /\ fetchState' = fetchState

\* the step closes the delete modal and performs no operation
CancelStep ==
  deleteModal /\ ~deleteModal' /\ editedProducts' = editedProducts /\ fetchState' = fetchState

\* C12: in the delete confirmation flow, confirm removes from the catalog exactly
\* the record of the pending target, leaves every other record and their order
\* unchanged and closes the modal; cancel closes the modal and leaves the catalog
\* and the pending-changes list unchanged.
C12_DeleteFlow ==
  [][(ConfirmStep =>
        /\ products' = SelectSeq(products, LAMBDA o : o # deleteTarget)
        /\ heap' = heap
        /\ ~deleteModal')
     /\ (CancelStep =>
          /\ products' = products
          /\ heap' = heap
          /\ editedProducts' = editedProducts)]_vars

\* C13: the admin modals do not nest: at most one of the add/edit modal and the
\* delete confirmation modal is open in every reachable state, and a modal is
\* opened only from the state in which both are closed.
C13_NoNesting ==
  [][/\ opens' # opens => (~modal /\ ~deleteModal)
     /\ ~(modal' /\ deleteModal')]_vars

\* C18: in the admin page, after any sequence of add, edit and delete operations
\* mixed with navigation, the current page is within [1, totalPages] of the
\* filtered list when that list is not empty and is 1 when it is empty.  The
\* search box is empty and no debounce timer runs: the sequence holds no search.
C18_AdminPageWithinRange ==
  (view.rendered /\ fetchState = "ok" /\ searchInput = <<>> /\ ~timer) =>
    IF view.count = 0 THEN currentPage = 1
    ELSE currentPage \in 1..view.totalPages

\* the number of catalog records a list shows under the sold-out setting chk
VisibleRecords(chk) ==
  Cardinality({k \in 1..Len(products) : chk \/ heap[products[k]].available})

\* C19: in every state after a successful load state.soldoutCount is the number
\* of catalog records with available = false, so the "of N item(s)" of the info
\* line is the number of records visible under the current sold-out setting,
\* whatever add, edit and delete operations were made.
C19_SoldoutCountCurrent ==
  (fetchState = "ok" /\ view.rendered) =>
    /\ soldoutCount = Cardinality({k \in 1..Len(products) : ~heap[products[k]].available})
    /\ view.info.of = VisibleRecords(view.showSoldOut)

----------------------------------------------------------------------------
(* Properties of the failures *)

\* C14: once the catalog fetch has failed (a non-success response or a body that
\* does not parse), the catalog is empty, isLoading is false and the "Failed to
\* load products" panel is the displayed panel, whatever search, sold-out or
\* navigation events follow.
C14_ErrorPanelStays ==
  fetchState = "failed" =>
    /\ products = <<>>
    /\ ~isLoading
    /\ view.panel = "error"

\* C15: a file that cannot be decoded as an image does not leave the submit
\* handler suspended forever: the re-encode ends (in a rejection), that is, the
\* promise of every suspended handler can settle.  (The other half of the claim,
\* that such a submission leaves the catalog, the converted-image map and the
\* pending-changes list unchanged, is the frame of SubmitWithFile.)
C15_BrokenFileSettles ==
  \A i \in 1..Len(pending) : ENABLED PromiseSettles(i)

\* the step puts one new record with identifier id in front of the catalog and
\* leaves every record there was as it was
AddedInFront(id) ==
  /\ Len(heap') = Len(heap) + 1
  /\ \A o \in 1..Len(heap) : heap'[o] = heap[o]
  /\ products' = <<Len(heap) + 1>> \o products
  /\ heap'[Len(heap) + 1].id = id

\* the record the step created has no image and its card, where displayed, shows
\* the placeholder
NoImageAdded ==
  /\ heap'[Len(heap) + 1].image = <<>>
  /\ \A j \in 1..Len(view'.cards) :
       view'.cards[j].oid = Len(heap) + 1 => view'.cards[j].imageSrc = PlaceholderUrl

\* C16: when the submission of an add completes with no other submission pending,
\* the catalog is the new record followed by the previous catalog in unchanged
\* order, the new record carries the identifier generated when the add modal was
\* opened, and with no image file chosen its image is the empty string and its
\* card shows the placeholder image.
C16_AddResult ==
  [][/\ (SubmitCompletes /\ pending = <<>> /\ pending' = <<>> /\ editingProduct = 0)
          => (AddedInFront(form.productId) /\ NoImageAdded)
     /\ \A i \in 1..Len(pending) :
          (Resumes(i) /\ pending[i].target = 0 /\ Len(pending) = 1)
            => AddedInFront(pending[i].id)]_vars

----------------------------------------------------------------------------
(* Properties of the export, checked under SpecExport *)

\* the image references a fetched catalog carries, the empty one included
FetchedImages ==
  {NoImage} \cup UNION {{c[k].image : k \in 1..Len(c)} : c \in AdminCatalogs}

\* C17: an export taken in any reachable state of the admin page holds
\* products.json equal to the catalog of that moment and one images/ entry for
\* every key of the converted-image map; so every record of the catalog whose
\* image reference was assigned by an upload of this session has its image file
\* in the archive, also when a re-encode is pending at the export.
C17_ExportComplete ==
  [][archive' # archive =>
       /\ archive'.taken
       /\ Len(archive'.productsJson) = Len(products)
       /\ \A k \in 1..Len(products) : archive'.productsJson[k] = heap[products[k]]
       /\ DOMAIN archive'.images = DOMAIN convertedImages
       /\ \A k \in 1..Len(products) :
            heap[products[k]].image \notin FetchedImages
              => heap[products[k]].image \in DOMAIN archive'.images]_vars

\* an export taken while a re-encode is pending, of a catalog with a record whose
\* image was uploaded
C17_Witness ==
  /\ archive.taken
  /\ pending # <<>>
  /\ archive.productsJson = ProductsJson(heap, products)
  /\ \E k \in 1..Len(products) : heap[products[k]].image \in DOMAIN archive.images

----------------------------------------------------------------------------
(* Properties of the cart of the shopper page, checked under SpecShop *)

\* C20: in the shopper page every cart entry carries the identifier of a product
\* that is in the catalog and is available (the checkbox of an unavailable
\* product is disabled, so no toggle is raised for it), and a toggle for an
\* identifier that is not in the catalog leaves the cart unchanged.
C20_CartEntriesValid ==
  /\ \A k \in 1..Len(cart) :
       \E i \in 1..Len(products) :
         heap[products[i]].id = cart[k].id /\ heap[products[i]].available
  /\ \A isChecked \in BOOLEAN :
       ToggleCartItem(heap, products, cart, ForeignId, isChecked) = cart

\* a product is in the cart while the card of a sold-out product is displayed
C20_Witness ==
  /\ cart # <<>>
  /\ \E j \in 1..Len(view.cards) : view.cards[j].disabled

\* the step is a search input, the debounced search, a sold-out toggle or a
\* prev, next or page-number click
FilterOrPageStep ==
  \/ searchInput' # searchInput
  \/ timer' # timer
  \/ showSoldOut' # showSoldOut
  \/ currentPage' # currentPage

\* C21: in the shopper page the search input, the sold-out toggle and the prev,
\* next and page-number clicks leave the cart unchanged, and in every rendered
\* view the checkbox of a card is checked if and only if the identifier of its
\* product is in the cart: selections survive page and filter changes.
C21_SelectionsSurvive ==
  [][/\ FilterOrPageStep => cart' = cart
     /\ \A j \in 1..Len(view'.cards) :
          view'.cards[j].checked <=> InCart(cart', view'.cards[j].id)]_vars

\* two products are selected, one on the displayed page, still checked, and one
\* on a page that is not displayed
C21_Witness ==
  /\ \E j \in 1..Len(view.cards) : view.cards[j].checked
  /\ \E k \in 1..Len(cart) :
       \A j \in 1..Len(view.cards) : view.cards[j].id # cart[k].id


====
